---- MODULE Spec2Model ----
(***************************************************************************)
(* A model of the everythingsings static-site generator: the content       *)
(* model (src/src/lib.rs, link_list.rs), the three renderers (head.rs,     *)
(* profile_card.rs, link_list.rs) and the command line entry point         *)
(* (main.rs).                                                              *)
(*                                                                         *)
(* Text is modelled as a sequence of lexemes.  A lexeme is either one of   *)
(* the markup metacharacters below or a chunk: a maximal run of ordinary   *)
(* characters, written as one string.  A chunk never contains a double     *)
(* quote, a backslash, '<', '>' or '&'.  Insignificant whitespace between  *)
(* tags and between JSON tokens is dropped.                                *)
(***************************************************************************)
EXTENDS Integers, Sequences, FiniteSets, TLC

VARIABLES
    identity,   \* the SiteIdentity the renderers read (config in lib.rs)
    jsonLd,     \* result of generate_json_ld, or NotRendered
    headHtml,   \* result of generate_head_html, or NotRendered
    cardHtml,   \* result of ProfileCard().to_html(), or NotRendered
    catalog,    \* the LinkCatalog (LINK_GROUPS in link_list.rs)
    listHtml,   \* result of LinkList().to_html(), or NotRendered
    markers,    \* whether to_html() leaves an empty comment where a dynamic
                \* child (an Option, a Vec) ends
    args,       \* env::args() of the process; args[1] is the program name,
                \* so the source's args[1] is args[2] here
    pc,         \* the statement of main / generate_static_site to run next
    html,       \* the local html of generate_static_site, or NotRendered
    disk,       \* the filesystem: path |-> directory or file with its data
    frames,     \* the active calls of copy_dir_contents, innermost last
    calls,      \* the filesystem calls made so far, with their outcome
    stdout,     \* lines printed with println!
    stderr,     \* lines printed with eprintln!
    exit_code   \* the exit status, Running until the process has exited

\* The content model and the fragments rendered from it.
page == <<identity, jsonLd, headHtml, cardHtml, catalog, listHtml, markers>>

\* The process started by main: its arguments, its position, the filesystem
\* and the two output streams.
run == <<args, pc, html, disk, frames, calls, stdout, stderr, exit_code>>

vars == <<identity, jsonLd, headHtml, cardHtml, catalog, listHtml, markers,
          args, pc, html, disk, frames, calls, stdout, stderr, exit_code>>

(***************************************************************************)
(* Lexemes                                                                 *)
(***************************************************************************)
LT  == "<"
GT  == ">"
Q   == "\""
BS  == "\\"
AMP == "&"
EQ  == "="
SL  == "/"
SP  == " "

\* Pieces of markup that are one lexeme: the doctype and the empty comment
\* to_html() may leave where a dynamic child ends.
Doctype == "<!DOCTYPE html>"
Placeholder == "<!>"

\* Marks an output that has not been produced yet.
NotRendered == <<"(not rendered)">>

(***************************************************************************)
(* Bounds of the checked input space                                       *)
(***************************************************************************)
MaxNameLen == 2
MaxDescLen == 1
MaxGroups == 2
MaxLinks == 2
MaxArgs == 2
MaxDepth == 1

(***************************************************************************)
(* Content model: config in lib.rs                                         *)
(***************************************************************************)
SITE_NAME == <<"EverythingSings">>

SITE_URL == <<"https://", "everythingsings.art">>

SITE_DESCRIPTION ==
    <<"Formless art brand for the future. Exploring AI, art, and sovereign technology.">>

AVATAR_PATH == <<SL, "avatar.png">>

THEME_COLOR == <<"#0d0d0d">>

Config ==
    [name |-> SITE_NAME, url |-> SITE_URL,
     description |-> SITE_DESCRIPTION, avatarPath |-> AVATAR_PATH]

\* Characters the checked identities are built from: an ordinary chunk and
\* the characters that are special in JSON, in HTML text or in attributes.
Alphabet == {"a", Q, BS, LT}

SeqsUpTo(S, n) == UNION {[1..k -> S] : k \in 1..n}

\* The text of a closing script tag, and an HTML character reference.
ScriptBreak == <<LT, SL, "script", GT>>
EntityText == <<AMP, "lt;">>

Names == SeqsUpTo(Alphabet, MaxNameLen) \cup {SITE_NAME, ScriptBreak, EntityText}

Descriptions == SeqsUpTo(Alphabet, MaxDescLen) \cup {SITE_DESCRIPTION}

\* Every url begins with https:// and every avatarPath with / (the
\* invariants lib.rs tests for).
Urls ==
    {SITE_URL, <<"https://", "h">>, <<"https://", "h", SL, "p">>,
     <<"https://", "h", Q>>}

AvatarPaths == {AVATAR_PATH, <<SL, "p">>, <<SL, "p", Q>>}

Identities ==
    [name : Names, url : Urls, description : Descriptions,
     avatarPath : AvatarPaths]

(***************************************************************************)
(* head.rs                                                                 *)
(***************************************************************************)
\* A JSON string literal whose content is interpolated by format!: the
\* value is inserted as it is.
JsonStr(v) == <<Q>> \o v \o <<Q>>

JsonMember(key, v) == <<Q, key, Q, ":">> \o v

generate_json_ld_image_without_url(id) ==
    <<"{">>
    \o JsonMember("@context", JsonStr(<<"https://schema.org">>)) \o <<",">>
    \o JsonMember("@type", JsonStr(<<"Person">>)) \o <<",">>
    \o JsonMember("name", JsonStr(id.name)) \o <<",">>
    \o JsonMember("url", JsonStr(id.url)) \o <<",">>
    \o JsonMember("description", JsonStr(id.description)) \o <<",">>
    \o JsonMember("image", JsonStr(id.avatarPath)) \o <<",">>
    \o JsonMember("sameAs", <<"[", "]">>)
    \o <<"}">>

generate_json_ld(id) ==
    <<"{">>
    \o JsonMember("@context", JsonStr(<<"https://schema.org">>)) \o <<",">>
    \o JsonMember("@type", JsonStr(<<"Person">>)) \o <<",">>
    \o JsonMember("name", JsonStr(id.name)) \o <<",">>
    \o JsonMember("url", JsonStr(id.url)) \o <<",">>
    \o JsonMember("description", JsonStr(id.description)) \o <<",">>
    \o JsonMember("image", JsonStr(id.url \o id.avatarPath)) \o <<",">>
    \o JsonMember("sameAs", <<"[", "]">>)
    \o <<"}">>

\* Markup written literally in a format! template: an attribute whose value
\* is interpolated as it is, and the tags around it.
RawAttr(n, v) == <<SP, n, EQ, Q>> \o v \o <<Q>>

BoolAttr(n) == <<SP, n>>

VoidTag(tag, attrs) == <<LT, tag>> \o attrs \o <<SP, SL, GT>>

OpenTag(tag, attrs) == <<LT, tag>> \o attrs \o <<GT>>

CloseTag(tag) == <<LT, SL, tag, GT>>

Meta(key, keyValue, content) ==
    VoidTag("meta", RawAttr(key, <<keyValue>>) \o RawAttr("content", content))

Link(rel, href, extra) ==
    VoidTag("link", RawAttr("rel", <<rel>>) \o RawAttr("href", href) \o extra)

generate_head_html(id) ==
    LET json_ld == generate_json_ld(id)
        full_avatar_url == id.url \o id.avatarPath
    IN  OpenTag("head", <<>>)
        \o VoidTag("meta", RawAttr("charset", <<"utf-8">>))
        \o Meta("name", "viewport", <<"width=device-width, initial-scale=1">>)
        \o OpenTag("title", <<>>) \o id.name \o <<" | Digital Artist">>
        \o CloseTag("title")
        \o Meta("name", "description", id.description)
        \o Link("canonical", id.url, <<>>)
        \o Link("icon", <<"/favicon.ico">>, RawAttr("sizes", <<"32x32">>))
        \o Link("icon", <<"/favicon.svg">>, RawAttr("type", <<"image/svg+xml">>))
        \o Link("apple-touch-icon", <<"/apple-touch-icon.png">>, <<>>)
        \o Link("manifest", <<"/site.webmanifest">>, <<>>)
        \o Meta("name", "theme-color", THEME_COLOR)
        \o Meta("property", "og:type", <<"profile">>)
        \o Meta("property", "og:title", id.name)
        \o Meta("property", "og:description", id.description)
        \o Meta("property", "og:url", id.url)
        \o Meta("property", "og:image", full_avatar_url)
        \o Meta("name", "twitter:card", <<"summary">>)
        \o Meta("name", "twitter:title", id.name)
        \o Meta("name", "twitter:description", id.description)
        \o Meta("name", "twitter:image", full_avatar_url)
        \o VoidTag("link",
                   RawAttr("rel", <<"alternate">>)
                   \o RawAttr("type", <<"application/rss+xml">>)
                   \o RawAttr("title", id.name \o <<" RSS Feed">>)
                   \o RawAttr("href", <<"/feed.xml">>))
        \o OpenTag("script", RawAttr("type", <<"application/ld+json">>))
        \o json_ld
        \o CloseTag("script")
        \o Link("stylesheet", <<"/main.css">>, <<>>)
        \o OpenTag("script",
                   RawAttr("src", <<"/js/shader-bg.js">>) \o BoolAttr("defer"))
        \o CloseTag("script")
        \o CloseTag("head")

(***************************************************************************)
(* Rendering by the view! macro and to_html() (profile_card.rs,            *)
(* link_list.rs, app.rs): a text node and an attribute value are escaped   *)
(* when they are written.                                                  *)
(***************************************************************************)
RECURSIVE EscapeWith(_, _)
EscapeWith(v, quote) ==
    IF v = <<>> THEN <<>>
    ELSE LET c == Head(v)
             e == IF c = AMP THEN <<AMP, "amp;">>
                  ELSE IF c = LT THEN <<AMP, "lt;">>
                  ELSE IF c = GT THEN <<AMP, "gt;">>
                  ELSE IF c = Q /\ quote THEN <<AMP, "quot;">>
                  ELSE <<c>>
         IN  e \o EscapeWith(Tail(v), quote)

EscapeText(v) == EscapeWith(v, FALSE)

EscapeAttr(v) == EscapeWith(v, TRUE)

ViewAttr(n, v) == <<SP, n, EQ, Q>> \o EscapeAttr(v) \o <<Q>>

ViewText(v) == EscapeText(v)

Element(tag, attrs, children) ==
    OpenTag(tag, attrs) \o children \o CloseTag(tag)

(***************************************************************************)
(* profile_card.rs                                                         *)
(***************************************************************************)
ProfileCard(id) ==
    Element("article",
        ViewAttr("class", <<"h-card", SP, "profile-card">>)
        \o BoolAttr("itemscope")
        \o ViewAttr("itemtype", <<"https://schema.org/Person">>),
        Element("a",
            ViewAttr("href", id.url) \o ViewAttr("class", <<"u-url">>)
            \o ViewAttr("rel", <<"me">>) \o ViewAttr("itemprop", <<"url">>),
            OpenTag("img",
                ViewAttr("src", id.avatarPath)
                \o ViewAttr("alt", id.name \o <<" avatar">>)
                \o ViewAttr("class", <<"u-photo", SP, "avatar">>)
                \o ViewAttr("itemprop", <<"image">>)
                \o ViewAttr("width", <<"128">>)
                \o ViewAttr("height", <<"128">>)))
        \o Element("h1",
            ViewAttr("class", <<"p-name">>) \o ViewAttr("itemprop", <<"name">>),
            ViewText(id.name))
        \o Element("p",
            ViewAttr("class", <<"p-note">>)
            \o ViewAttr("itemprop", <<"description">>),
            ViewText(id.description)))

(***************************************************************************)
(* link_list.rs                                                            *)
(***************************************************************************)
\* Option<&str>: None is the empty sequence, Some(v) the sequence <<v>>.
None == <<>>

Some(v) == <<v>>

LinkEntry(label, href, description) ==
    [label |-> <<label>>, href |-> <<href>>, description |-> description]

LinkGroup(name, links) == [name |-> <<name>>, links |-> links]

LINK_GROUPS ==
    << LinkGroup("Create",
           << LinkEntry("Lumimenta", "https://lumimenta.everythingsings.art",
                        Some(<<"Physical trading card photography series">>)),
              LinkEntry("Sigil", "https://sigil.everythingsings.art",
                        Some(<<"Explore Sigil">>)),
              LinkEntry("Music", "https://music.apple.com/artist/1704503690",
                        Some(<<"Listen on Apple Music">>)) >>),
       LinkGroup("Think",
           << LinkEntry("Substack", "https://everythingsings.substack.com",
                        Some(<<"Writing on AI, art, and technology">>)) >>),
       LinkGroup("Build",
           << LinkEntry("GitHub", "https://github.com/EverythingSings",
                        Some(<<"Code is art">>)),
              LinkEntry("Sovereign Tools",
                        "https://github.com/sovereign-composable-tools",
                        Some(<<"Local-first tools for open protocols">>)) >>),
       LinkGroup("Support",
           << LinkEntry("Shop", "https://bedim.redbubble.com",
                        Some(<<"AI art prints and merchandise">>)) >>),
       LinkGroup("Connect",
           << LinkEntry("Mastodon", "https://mastodon.social/@everythingsings",
                        Some(<<"Follow on Mastodon">>)),
              LinkEntry("Nostr",
                        "https://primal.net/p/nprofile1qqsvxa6ez4lr32zrhk98xwj8pka3kjjy9v4c823m6pt4gvw8d49vfggjfvjru",
                        Some(<<"Follow on Nostr">>)),
              LinkEntry("X", "https://x.com/systemicwisdom_",
                        Some(<<"Follow on X">>)) >>) >>

\* What to_html() writes where a dynamic child ends.
DynamicEnd == IF markers THEN <<Placeholder>> ELSE <<>>

unwrap_or(opt, default) == IF opt = None THEN default ELSE opt[1]

DescriptionSpan(desc) ==
    Element("span", ViewAttr("class", <<"link-description">>), ViewText(desc))

render_link_always_describes(link) ==
    Element("li", ViewAttr("class", <<"link-item">>),
        Element("a",
            ViewAttr("href", link.href)
            \o ViewAttr("rel", <<"me", SP, "noopener">>)
            \o ViewAttr("itemprop", <<"sameAs">>)
            \o ViewAttr("class", <<"link-card">>)
            \o ViewAttr("title", unwrap_or(link.description, link.label)),
            Element("span", ViewAttr("class", <<"link-label">>),
                    ViewText(link.label))
            \o DescriptionSpan(unwrap_or(link.description, <<>>))))

render_link_rel_only_when_described(link) ==
    Element("li", ViewAttr("class", <<"link-item">>),
        Element("a",
            ViewAttr("href", link.href)
            \o (IF link.description = None THEN <<>>
                ELSE ViewAttr("rel", <<"me", SP, "noopener">>))
            \o ViewAttr("itemprop", <<"sameAs">>)
            \o ViewAttr("class", <<"link-card">>)
            \o ViewAttr("title", unwrap_or(link.description, link.label)),
            Element("span", ViewAttr("class", <<"link-label">>),
                    ViewText(link.label))
            \o (IF link.description = None THEN DynamicEnd
                ELSE DescriptionSpan(link.description[1]))))

render_link(link) ==
    Element("li", ViewAttr("class", <<"link-item">>),
        Element("a",
            ViewAttr("href", link.href)
            \o ViewAttr("rel", <<"me", SP, "noopener">>)
            \o ViewAttr("itemprop", <<"sameAs">>)
            \o ViewAttr("class", <<"link-card">>)
            \o ViewAttr("title", unwrap_or(link.description, link.label)),
            Element("span", ViewAttr("class", <<"link-label">>),
                    ViewText(link.label))
            \o (IF link.description = None THEN DynamicEnd
                ELSE DescriptionSpan(link.description[1]))))

\* group.links.iter().map(render_link).collect::<Vec<_>>()
RECURSIVE RenderLinks(_)
RenderLinks(links) ==
    IF links = <<>> THEN <<>>
    ELSE render_link(Head(links)) \o RenderLinks(Tail(links))

render_group(group) ==
    Element("section", ViewAttr("class", <<"link-group">>),
        Element("h2", ViewAttr("class", <<"link-group", "-label">>),
                ViewText(group.name))
        \o Element("ul", <<>>, RenderLinks(group.links) \o DynamicEnd))

\* LINK_GROUPS.iter().map(render_group).collect::<Vec<_>>()
RECURSIVE RenderGroups(_)
RenderGroups(groups) ==
    IF groups = <<>> THEN <<>>
    ELSE render_group(Head(groups)) \o RenderGroups(Tail(groups))

\* The sequence with its items in the opposite order.
Reversed(items) == [k \in 1..Len(items) |-> items[Len(items) + 1 - k]]

LinkList_reversed(groups) ==
    Element("nav",
        ViewAttr("class", <<"link-list">>)
        \o ViewAttr("aria-label", <<"Profile links">>),
        RenderGroups(Reversed(groups)) \o DynamicEnd)

LinkList_skips_empty_groups(groups) ==
    Element("nav",
        ViewAttr("class", <<"link-list">>)
        \o ViewAttr("aria-label", <<"Profile links">>),
        RenderGroups(SelectSeq(groups, LAMBDA g : g.links # <<>>))
        \o DynamicEnd)

LinkList(groups) ==
    Element("nav",
        ViewAttr("class", <<"link-list">>)
        \o ViewAttr("aria-label", <<"Profile links">>),
        RenderGroups(groups) \o DynamicEnd)

\* The marker the tests count group containers by (list_has_five_groups).
GroupMarker == <<LT, "section", SP, "class", EQ, Q, "link-group", Q>>

\* The links of the catalogs the renderer is checked on.  A label and a
\* description may hold markup, down to the text of the group marker itself.
CheckedLinks ==
    { [label |-> GroupMarker, href |-> <<"https://", "z", AMP>>,
       description |-> None],
      [label |-> <<"b">>, href |-> <<"https://", "y">>,
       description |-> Some(<<"d", LT, Q>>)] }

\* A catalog whose fields are empty wherever they can be.
EmptyFieldsCatalog ==
    << [name |-> <<>>,
        links |-> << [label |-> <<>>, href |-> <<"https://", "x">>,
                      description |-> Some(<<>>)] >>] >>

\* Group names are unique within a catalog: the i-th group of a checked
\* catalog bears the i-th name.
GroupNames == [k \in 1..5 |-> LINK_GROUPS[k].name]

LinkSeqs == {<<>>} \cup SeqsUpTo(CheckedLinks, MaxLinks)

Catalogs ==
    {LINK_GROUPS, EmptyFieldsCatalog}
    \cup UNION { { [k \in 1..n |-> [name |-> GroupNames[k], links |-> ls[k]]] :
                     ls \in [1..n -> LinkSeqs] } : n \in 0..MaxGroups }

(***************************************************************************)
(* Reading the output back: what a consumer of the markup recovers.        *)
(* Lex is an HTML tokenizer over lexemes; it reports malformed markup      *)
(* instead of repairing it.  Recursion is by halving: the evaluator's      *)
(* stack is shallow.                                                       *)
(***************************************************************************)
Min(S) == CHOOSE k \in S : \A m \in S : k <= m

Max(S) == CHOOSE k \in S : \A m \in S : m <= k

\* Whether pat occurs in s at index i.
MatchAt(s, i, pat) ==
    /\ i + Len(pat) - 1 <= Len(s)
    /\ \A k \in 1..Len(pat) : s[i + k - 1] = pat[k]

\* The first index k >= i at which pat occurs in s, or 0.
FindFrom(s, i, pat) ==
    IF \E k \in i..Len(s) : MatchAt(s, k, pat)
    THEN CHOOSE k \in i..Len(s) :
             MatchAt(s, k, pat) /\ \A m \in i..(k - 1) : ~MatchAt(s, m, pat)
    ELSE 0

\* str::matches(pat).count(): the non-overlapping occurrences of pat in s.
RECURSIVE CountFrom(_, _, _)
CountFrom(s, i, pat) ==
    LET k == FindFrom(s, i, pat)
    IN  IF k = 0 THEN 0 ELSE 1 + CountFrom(s, k + Len(pat), pat)

CountMatches(s, pat) == CountFrom(s, 1, pat)

Contains(s, pat) == FindFrom(s, 1, pat) # 0

\* Character references are replaced by the characters they name.
RECURSIVE DecodeEntities(_)
DecodeEntities(v) ==
    IF v = <<>> THEN <<>>
    ELSE IF Head(v) = AMP /\ Len(v) >= 2
              /\ v[2] \in {"amp;", "lt;", "gt;", "quot;"}
         THEN <<CASE v[2] = "amp;" -> AMP
                  [] v[2] = "lt;" -> LT
                  [] v[2] = "gt;" -> GT
                  [] OTHER -> Q>>
              \o DecodeEntities(SubSeq(v, 3, Len(v)))
         ELSE <<Head(v)>> \o DecodeEntities(Tail(v))

VoidTags == {"meta", "link", "img"}

\* Elements whose content is text up to their own closing tag.
RawTextTags == {"script", "style"}
EscapableRawTextTags == {"title"}

IsTagName(t) == t \notin {LT, GT, Q, BS, AMP, EQ, SL, SP, Doctype, Placeholder}

IsAttrName(t) == t \notin {LT, GT, Q, EQ, SL, SP}

\* The tokenizer's state: where it is (m) and, inside a tag or a raw text
\* element, which tag.
Mode(m, tag) == [m |-> m, tag |-> tag]

DataMode == Mode("data", "")

ErrorMode == Mode("error", "")

AfterTag(tag) ==
    IF tag \in RawTextTags \cup EscapableRawTextTags
    THEN Mode("raw", tag) ELSE DataMode

InTag(mode, t) ==
    IF t = GT THEN AfterTag(mode.tag)
    ELSE IF t = SL THEN Mode("selfclose", mode.tag)
    ELSE IF t = SP THEN Mode("attrs", mode.tag)
    ELSE IF IsAttrName(t) THEN Mode("attrname", mode.tag)
    ELSE ErrorMode

\* The state after lexeme i of s, read in state mode.
Step(mode, s, i) ==
    LET t == s[i]
        m == mode.m
    IN  CASE m = "data" -> IF t = LT THEN Mode("tagopen", "") ELSE DataMode
          [] m = "raw" ->
                IF MatchAt(s, i, <<LT, SL, mode.tag>>)
                THEN Mode("tagopen", "") ELSE mode
          [] m = "tagopen" ->
                IF t = SL THEN Mode("closeopen", "")
                ELSE IF IsTagName(t) THEN Mode("attrs", t)
                ELSE ErrorMode
          [] m = "closeopen" ->
                IF IsTagName(t) THEN Mode("closename", t) ELSE ErrorMode
          [] m = "closename" ->
                IF t = GT THEN DataMode
                ELSE IF t = SP THEN mode
                ELSE ErrorMode
          [] m = "attrs" -> InTag(mode, t)
          [] m = "attrname" ->
                IF t = EQ THEN Mode("attreq", mode.tag) ELSE InTag(mode, t)
          [] m = "attreq" ->
                IF t = Q THEN Mode("value", mode.tag) ELSE ErrorMode
          [] m = "value" ->
                IF t = Q THEN Mode("aftervalue", mode.tag) ELSE mode
          [] m = "aftervalue" ->
                IF t \in {GT, SL, SP} THEN InTag(mode, t) ELSE ErrorMode
          [] m = "selfclose" -> IF t = GT THEN DataMode ELSE ErrorMode
          [] OTHER -> ErrorMode

\* The states after each of the lexemes lo..hi of s, read from state start.
RECURSIVE ModesFrom(_, _, _, _)
ModesFrom(s, lo, hi, start) ==
    IF lo > hi THEN <<>>
    ELSE IF lo = hi THEN <<Step(start, s, lo)>>
    ELSE LET mid == (lo + hi) \div 2
             left == ModesFrom(s, lo, mid, start)
         IN  left \o ModesFrom(s, mid + 1, hi, left[Len(left)])

\* Lex(s)[i] is the state in which lexeme i is read; Lex(s)[Len(s)+1] is
\* the state at the end.
Lex(s) == <<DataMode>> \o ModesFrom(s, 1, Len(s), DataMode)

\* Positions of the tag names of the opening and of the closing tags.
OpenTags(s, M) ==
    {i \in 1..Len(s) : M[i].m = "tagopen" /\ M[i + 1].m = "attrs"}

CloseTags(s, M) ==
    {i \in 1..Len(s) : M[i].m = "closeopen" /\ M[i + 1].m = "closename"}

\* The position of the '>' that ends the tag whose name is at i.
TagEnd(s, M, i) ==
    CHOOSE k \in (i + 1)..Len(s) :
        /\ M[k + 1].m \in {"data", "raw", "error"}
        /\ \A j \in (i + 1)..(k - 1) : M[j + 1].m \notin {"data", "raw", "error"}

\* Positions of the attribute names of the tag whose name is at i.
AttrNames(s, M, i) ==
    {j \in (i + 1)..TagEnd(s, M, i) :
        M[j].m \in {"attrs", "attrname"} /\ M[j + 1].m = "attrname"}

\* The value of the attribute whose name is at j (<<>> when it has none).
AttrValueAt(s, M, j) ==
    IF j + 2 <= Len(s) /\ M[j + 2].m = "attreq" /\ M[j + 3].m = "value"
    THEN LET k == CHOOSE k \in (j + 3)..Len(s) :
                      /\ M[k].m = "value" /\ M[k + 1].m # "value"
                      /\ \A x \in (j + 3)..(k - 1) : M[x + 1].m = "value"
         IN  DecodeEntities(SubSeq(s, j + 3, k - 1))
    ELSE <<>>

HasAttr(s, M, i, n) == \E j \in AttrNames(s, M, i) : s[j] = n

\* The value of the first attribute named n of the tag at i.
AttrValue(s, M, i, n) ==
    IF HasAttr(s, M, i, n)
    THEN AttrValueAt(s, M, Min({j \in AttrNames(s, M, i) : s[j] = n}))
    ELSE <<>>

\* The space-separated words of an attribute value.
RECURSIVE WordsOf(_, _, _)
WordsOf(v, cur, acc) ==
    IF v = <<>> THEN (IF cur = <<>> THEN acc ELSE acc \cup {cur})
    ELSE IF Head(v) = SP
         THEN WordsOf(Tail(v), <<>>, IF cur = <<>> THEN acc ELSE acc \cup {cur})
    ELSE WordsOf(Tail(v), Append(cur, Head(v)), acc)

Words(v) == WordsOf(v, <<>>, {})

HasClass(s, M, i, c) == c \in Words(AttrValue(s, M, i, "class"))

\* The text that directly follows the tag at i, up to the next markup.
TextAfter(s, M, i) ==
    LET e == TagEnd(s, M, i)
        IsText(k) == /\ M[k].m \in {"data", "raw"}
                     /\ M[k + 1].m = M[k].m
                     /\ s[k] \notin {Doctype, Placeholder}
        last == IF e + 1 <= Len(s) /\ IsText(e + 1)
                THEN CHOOSE k \in (e + 1)..Len(s) :
                         /\ \A x \in (e + 1)..k : IsText(x)
                         /\ (k = Len(s) \/ ~IsText(k + 1))
                ELSE e
        raw == SubSeq(s, e + 1, last)
    IN  IF s[i] \in RawTextTags THEN raw ELSE DecodeEntities(raw)

\* Elements are properly nested: every closing tag closes the innermost
\* element still open, and none is left open at the end.
Opened(s, M) == {i \in OpenTags(s, M) : s[i] \notin VoidTags}

Depth(s, M, k) ==
    Cardinality({i \in Opened(s, M) : i < k})
    - Cardinality({i \in CloseTags(s, M) : i < k})

Nested(s, M) ==
    /\ Depth(s, M, Len(s) + 1) = 0
    /\ \A c \in CloseTags(s, M) :
           LET d == Depth(s, M, c)
               cands == {o \in Opened(s, M) : o < c /\ Depth(s, M, o) = d - 1}
           IN  d >= 1 /\ cands # {} /\ s[Max(cands)] = s[c]

LexOk(s, M) == M[Len(s) + 1] = DataMode

WellFormedHtml(s) == LET M == Lex(s) IN LexOk(s, M) /\ Nested(s, M)

(***************************************************************************)
(* JSON                                                                    *)
(***************************************************************************)
\* In a string literal whose content starts at i: the index of the closing
\* quote, or 0 when the literal is not terminated or holds a bad escape.
RECURSIVE JsonStringEnd(_, _)
JsonStringEnd(s, i) ==
    IF i > Len(s) THEN 0
    ELSE IF s[i] = Q THEN i
    ELSE IF s[i] = BS
         THEN IF i + 1 <= Len(s) /\ s[i + 1] \in {Q, BS, SL}
              THEN JsonStringEnd(s, i + 2)
              ELSE 0
    ELSE JsonStringEnd(s, i + 1)

RECURSIVE JsonUnescape(_)
JsonUnescape(v) ==
    IF v = <<>> THEN <<>>
    ELSE IF Head(v) = BS /\ Len(v) >= 2
         THEN <<v[2]>> \o JsonUnescape(SubSeq(v, 3, Len(v)))
         ELSE <<Head(v)>> \o JsonUnescape(Tail(v))

BadJson == [ok |-> FALSE, members |-> <<>>]

\* The members of an object from index i (the start of a key) on.
RECURSIVE ReadJsonMembers(_, _, _)
ReadJsonMembers(s, i, acc) ==
    IF i > Len(s) \/ s[i] # Q THEN BadJson
    ELSE LET ke == JsonStringEnd(s, i + 1)
         IN  IF ke = 0 \/ ke + 2 > Len(s) \/ s[ke + 1] # ":" THEN BadJson
             ELSE LET key == JsonUnescape(SubSeq(s, i + 1, ke - 1))
                      vs == ke + 2
                      isStr == s[vs] = Q
                      ve == IF isStr THEN JsonStringEnd(s, vs + 1)
                            ELSE IF s[vs] = "[" /\ vs + 1 <= Len(s)
                                    /\ s[vs + 1] = "]"
                                 THEN vs + 1 ELSE 0
                      m == [key |-> key,
                            kind |-> IF isStr THEN "string" ELSE "array",
                            value |-> IF isStr /\ ve # 0
                                      THEN JsonUnescape(SubSeq(s, vs + 1, ve - 1))
                                      ELSE <<>>]
                  IN  IF ve = 0 \/ ve + 1 > Len(s) THEN BadJson
                      ELSE IF s[ve + 1] = ","
                           THEN ReadJsonMembers(s, ve + 2, Append(acc, m))
                      ELSE IF s[ve + 1] = "}" /\ ve + 1 = Len(s)
                           THEN [ok |-> TRUE, members |-> Append(acc, m)]
                      ELSE BadJson

ReadJson(s) ==
    IF Len(s) < 2 \/ s[1] # "{" THEN BadJson
    ELSE IF s = <<"{", "}">> THEN [ok |-> TRUE, members |-> <<>>]
    ELSE ReadJsonMembers(s, 2, <<>>)

JsonHas(j, key) == \E k \in 1..Len(j.members) : j.members[k].key = <<key>>

\* The value of the member named key (the last one, as JSON readers do).
JsonGet(j, key) ==
    j.members[CHOOSE k \in 1..Len(j.members) :
                  /\ j.members[k].key = <<key>>
                  /\ \A m \in (k + 1)..Len(j.members) :
                         j.members[m].key # <<key>>]

(***************************************************************************)
(* What each encoding of the identity yields to its consumer               *)
(***************************************************************************)
\* The JSON-LD script blocks of a head fragment.
JsonLdBlocks(s, M) ==
    {i \in OpenTags(s, M) :
        s[i] = "script" /\ AttrValue(s, M, i, "type") = <<"application/ld+json">>}

JsonString(j, key) ==
    IF j.ok /\ JsonHas(j, key) /\ JsonGet(j, key).kind = "string"
    THEN JsonGet(j, key).value ELSE <<>>

\* A root-relative reference resolved against a base URL: the scheme and
\* host of the base, then the reference.
Origin(base) ==
    IF \E k \in 2..Len(base) : base[k] = SL
    THEN SubSeq(base, 1, Min({k \in 2..Len(base) : base[k] = SL}) - 1)
    ELSE base

Resolve(base, ref) == Origin(base) \o ref

WithClass(s, M, c) == {i \in OpenTags(s, M) : HasClass(s, M, i, c)}

WithItemprop(s, M, p) ==
    {i \in OpenTags(s, M) : AttrValue(s, M, i, "itemprop") = <<p>>}

\* The text of the only element of S, or <<>> when S is not a singleton.
OnlyText(s, M, S) ==
    IF Cardinality(S) = 1 THEN TextAfter(s, M, CHOOSE i \in S : TRUE) ELSE <<>>

OnlyAttr(s, M, S, n) ==
    IF Cardinality(S) = 1 THEN AttrValue(s, M, CHOOSE i \in S : TRUE, n)
    ELSE <<>>

\* No markup metacharacter occurs in v.
Plain(v) == \A k \in 1..Len(v) : v[k] \notin {Q, BS, LT, GT, AMP}

PlainIdentity(id) ==
    /\ Plain(id.name) /\ Plain(id.url)
    /\ Plain(id.description) /\ Plain(id.avatarPath)

(***************************************************************************)
(* app.rs                                                                  *)
(***************************************************************************)
NoscriptStyle ==
    <<"body { background: linear-gradient(135deg, #0d0d0d 0%, #1a1a1a 50%, #0d0d0d 100%); }">>

Body(id, groups) ==
    Element("body",
        BoolAttr("itemscope")
        \o ViewAttr("itemtype", <<"https://schema.org/WebPage">>),
        Element("canvas",
            ViewAttr("id", <<"shader-canvas">>)
            \o ViewAttr("aria-hidden", <<"true">>), <<>>)
        \o Element("noscript", <<>>,
            Element("style", <<>>, ViewText(NoscriptStyle)))
        \o Element("main", ViewAttr("class", <<"container">>),
            ProfileCard(id) \o LinkList(groups))
        \o Element("footer", <<>>, <<>>))

App(id, groups) == Body(id, groups)

(***************************************************************************)
(* main.rs: the document                                                   *)
(***************************************************************************)
render_to_html_body_first(id, groups) ==
    LET head_html == generate_head_html(id)
        body_html == App(id, groups)
    IN  <<Doctype>>
        \o OpenTag("html", RawAttr("lang", <<"en">>))
        \o body_html
        \o head_html
        \o CloseTag("html")

render_to_html(id, groups) ==
    LET head_html == generate_head_html(id)
        body_html == App(id, groups)
    IN  <<Doctype>>
        \o OpenTag("html", RawAttr("lang", <<"en">>))
        \o head_html
        \o body_html
        \o CloseTag("html")

(***************************************************************************)
(* The filesystem: a function from paths (sequences of names) to nodes.    *)
(***************************************************************************)
Dir == [kind |-> "dir", data |-> <<>>]

File(data) == [kind |-> "file", data |-> data]

EmptyDisk == [p \in {} |-> Dir]

\* Path::join
join(path, name) == Append(path, name)

\* Path::exists and Path::is_dir
exists(d, path) == path \in DOMAIN d

is_dir(d, path) == path \in DOMAIN d /\ d[path].kind = "dir"

Ancestors(path) == {SubSeq(path, 1, k) : k \in 1..(Len(path) - 1)}

\* fs::create_dir_all succeeds when no component of the path is a file, and
\* leaves every component a directory.
CanCreateDirAll(d, path) ==
    \A p \in Ancestors(path) \cup {path} : exists(d, p) => is_dir(d, p)

create_dir_all(d, path) ==
    [p \in DOMAIN d \cup Ancestors(path) \cup {path} |->
        IF p \in DOMAIN d THEN d[p] ELSE Dir]

\* fs::write and fs::copy create or replace a file in an existing directory.
CanWriteFile(d, path) ==
    /\ is_dir(d, SubSeq(path, 1, Len(path) - 1))
    /\ ~is_dir(d, path)

WriteFile(d, path, data) ==
    [p \in DOMAIN d \cup {path} |-> IF p = path THEN File(data) ELSE d[p]]

\* The names fs::read_dir yields for a directory.
EntryNames(d, path) ==
    {p[Len(p)] : p \in {q \in DOMAIN d :
        Len(q) = Len(path) + 1 /\ SubSeq(q, 1, Len(path)) = path}}

\* fs::read_dir promises no order: every arrangement of the names.
Orders(S) ==
    {o \in [1..Cardinality(S) -> S] : \A n \in S : \E k \in DOMAIN o : o[k] = n}

\* What a write that fails can leave of the data: nothing of it, or its
\* first bytes.
Truncations(data) ==
    {SubSeq(data, 1, k) : k \in {0, Len(data) \div 2}}

(***************************************************************************)
(* main.rs: paths, messages and the environment of a run                   *)
(***************************************************************************)
output_dir == <<"target", "site">>

public_dir == <<"public">>

style_src == <<"style", "main.css">>

index_path == join(output_dir, "index.html")

style_dst == join(output_dir, "main.css")

Running == -1

Usage == "Usage: everythingsings [OPTIONS]"

UnknownOption == "Unknown option: "

ErrorGenerating == "Error generating static site: "

ModeFlags == {"--generate-static", "--help", "-h"}

Call(op, path, ok) == [op |-> op, path |-> path, ok |-> ok]

\* Argument lists: the program name followed by up to MaxArgs arguments.
Arguments == ModeFlags \cup {"--bogus"}

ArgLists ==
    {<<"everythingsings">> \o a :
        a \in {<<>>} \cup SeqsUpTo(Arguments, MaxArgs)}

\* The bytes of a file of the working tree.
Bytes(path) == <<"bytes of">> \o path

\* The files a directory of the public tree may hold: at the top also an
\* index.html.
FileNames(root) ==
    IF root = public_dir THEN {"index.html", "avatar.png"} ELSE {"avatar.png"}

FilesIn(root) ==
    {[p \in {join(root, n) : n \in S} |-> File(Bytes(p))] :
        S \in SUBSET FileNames(root)}

\* Directory trees below root, nested up to depth subdirectories deep.
RECURSIVE Trees(_, _)
Trees(root, depth) ==
    IF depth = 0 THEN FilesIn(root)
    ELSE LET sub == join(root, "img")
         IN  {f @@ g : f \in FilesIn(root),
                       g \in {EmptyDisk} \cup
                             {(sub :> Dir) @@ t : t \in Trees(sub, depth - 1)}}

\* The working directory main starts in: public/ absent or a tree,
\* style/main.css absent or present, target/site absent or left by an
\* earlier run.
PublicDirs ==
    {EmptyDisk} \cup {(public_dir :> Dir) @@ t : t \in Trees(public_dir, MaxDepth)}

StyleDirs ==
    {EmptyDisk,
     (<<"style">> :> Dir) @@ (style_src :> File(Bytes(style_src)))}

OutputDirs ==
    {EmptyDisk,
     (<<"target">> :> Dir) @@ (output_dir :> Dir)
        @@ (index_path :> File(<<"stale document">>))}

Disks == {p @@ s @@ o : p \in PublicDirs, s \in StyleDirs, o \in OutputDirs}

\* The process before main has run.
NotStarted ==
    /\ args = <<"everythingsings">>
    /\ pc = "main"
    /\ html = NotRendered
    /\ disk = EmptyDisk
    /\ frames = <<>>
    /\ calls = <<>>
    /\ stdout = <<>>
    /\ stderr = <<>>
    /\ exit_code = Running

(***************************************************************************)
(* Specification of the head and profile renderers over every identity     *)
(***************************************************************************)
InitHead ==
    /\ identity \in Identities
    /\ jsonLd = NotRendered
    /\ headHtml = NotRendered
    /\ cardHtml = NotRendered
    /\ catalog = <<>>
    /\ listHtml = NotRendered
    /\ markers = FALSE
    /\ NotStarted

GenerateJsonLd ==
    /\ jsonLd = NotRendered
    /\ jsonLd' = generate_json_ld(identity)
    /\ UNCHANGED <<identity, headHtml, cardHtml, catalog, listHtml, markers>>
    /\ UNCHANGED run

GenerateHeadHtml ==
    /\ headHtml = NotRendered
    /\ headHtml' = generate_head_html(identity)
    /\ UNCHANGED <<identity, jsonLd, cardHtml, catalog, listHtml, markers>>
    /\ UNCHANGED run

RenderProfileCard ==
    /\ cardHtml = NotRendered
    /\ cardHtml' = ProfileCard(identity)
    /\ UNCHANGED <<identity, jsonLd, headHtml, catalog, listHtml, markers>>
    /\ UNCHANGED run

NextHead == GenerateJsonLd \/ GenerateHeadHtml \/ RenderProfileCard

SpecHead == InitHead /\ [][NextHead]_vars
(***************************************************************************)
(* Specification of the link list renderer over every catalog              *)
(***************************************************************************)
InitLinks ==
    /\ identity = Config
    /\ jsonLd = NotRendered
    /\ headHtml = NotRendered
    /\ cardHtml = NotRendered
    /\ catalog \in Catalogs
    /\ listHtml = NotRendered
    /\ markers \in BOOLEAN
    /\ NotStarted

RenderLinkList ==
    /\ listHtml = NotRendered
    /\ listHtml' = LinkList(catalog)
    /\ UNCHANGED <<identity, jsonLd, headHtml, cardHtml, catalog, markers>>
    /\ UNCHANGED run

NextLinks == RenderLinkList

SpecLinks == InitLinks /\ [][NextLinks]_vars

(***************************************************************************)
(* Specification of the generator process (main.rs)                        *)
(***************************************************************************)
Init ==
    /\ identity = Config
    /\ jsonLd = NotRendered
    /\ headHtml = NotRendered
    /\ cardHtml = NotRendered
    /\ catalog = LINK_GROUPS
    /\ listHtml = NotRendered
    /\ markers \in BOOLEAN
    /\ args \in ArgLists
    /\ pc = "main"
    /\ html = NotRendered
    /\ disk \in Disks
    /\ frames = <<>>
    /\ calls = <<>>
    /\ stdout = <<>>
    /\ stderr = <<>>
    /\ exit_code = Running

\* print_usage
print_usage(err) == Append(err, Usage)

\* std::process::exit, or the return from main
Exit(code) ==
    /\ pc' = "exited"
    /\ exit_code' = code

\* main, args.len() < 2
MainNoArguments ==
    /\ pc = "main"
    /\ Len(args) < 2
    /\ stderr' = print_usage(stderr)
    /\ Exit(1)
    /\ UNCHANGED <<page, args, html, disk, frames, calls, stdout>>

MainHelp_then_generates ==
    /\ pc = "main"
    /\ Len(args) >= 2
    /\ args[2] \in {"--help", "-h"}
    /\ stderr' = print_usage(stderr)
    /\ pc' = "create_output_dir"
    /\ UNCHANGED <<page, args, html, disk, frames, calls, stdout, exit_code>>

\* main, the arm "--help" | "-h"
MainHelp ==
    /\ pc = "main"
    /\ Len(args) >= 2
    /\ args[2] \in {"--help", "-h"}
    /\ stderr' = print_usage(stderr)
    /\ Exit(0)
    /\ UNCHANGED <<page, args, html, disk, frames, calls, stdout>>

MainUnknownOption_exits_zero ==
    /\ pc = "main"
    /\ Len(args) >= 2
    /\ args[2] \notin ModeFlags
    /\ stderr' = print_usage(Append(stderr, UnknownOption))
    /\ Exit(0)
    /\ UNCHANGED <<page, args, html, disk, frames, calls, stdout>>

\* main, the arm _
MainUnknownOption ==
    /\ pc = "main"
    /\ Len(args) >= 2
    /\ args[2] \notin ModeFlags
    /\ stderr' = print_usage(Append(stderr, UnknownOption))
    /\ Exit(1)
    /\ UNCHANGED <<page, args, html, disk, frames, calls, stdout>>

\* main, the arm "--generate-static": the call of generate_static_site
MainGenerate ==
    /\ pc = "main"
    /\ Len(args) >= 2
    /\ args[2] = "--generate-static"
    /\ pc' = "create_output_dir"
    /\ UNCHANGED <<page, args, html, disk, frames, calls, stdout, stderr,
                   exit_code>>

GenerateFailed_exits_zero(made) ==
    /\ calls' = calls \o made
    /\ stderr' = Append(stderr, ErrorGenerating)
    /\ frames' = <<>>
    /\ Exit(0)
    /\ UNCHANGED <<page, args, html, stdout>>

\* The last of the calls made returned Err: ? hands it up to main, which
\* reports it and exits.
GenerateFailed(made) ==
    /\ calls' = calls \o made
    /\ stderr' = Append(stderr, ErrorGenerating)
    /\ frames' = <<>>
    /\ Exit(1)
    /\ UNCHANGED <<page, args, html, stdout>>

\* fs::create_dir_all(output_dir)?
CreateOutputDir ==
    /\ pc = "create_output_dir"
    /\ CanCreateDirAll(disk, output_dir)
    /\ disk' = create_dir_all(disk, output_dir)
    /\ calls' = Append(calls, Call("create_dir_all", output_dir, TRUE))
    /\ pc' = "render"
    /\ UNCHANGED <<page, args, html, frames, stdout, stderr, exit_code>>

CreateOutputDirFails ==
    /\ pc = "create_output_dir"
    /\ disk' = disk
    /\ GenerateFailed(<<Call("create_dir_all", output_dir, FALSE)>>)

\* let html = render_to_html();
Render ==
    /\ pc = "render"
    /\ html' = render_to_html(identity, catalog)
    /\ pc' = "write_index"
    /\ UNCHANGED <<page, args, disk, frames, calls, stdout, stderr, exit_code>>

WriteIndex_first_half_only ==
    /\ pc = "write_index"
    /\ CanWriteFile(disk, index_path)
    /\ disk' = WriteFile(disk, index_path, SubSeq(html, 1, Len(html) \div 2))
    /\ calls' = Append(calls, Call("write", index_path, TRUE))
    /\ stdout' = Append(stdout, "Generated: ")
    /\ pc' = "public"
    /\ UNCHANGED <<page, args, html, frames, stderr, exit_code>>

\* fs::write(&index_path, &html)?; println!("Generated: ...")
WriteIndex ==
    /\ pc = "write_index"
    /\ CanWriteFile(disk, index_path)
    /\ disk' = WriteFile(disk, index_path, html)
    /\ calls' = Append(calls, Call("write", index_path, TRUE))
    /\ stdout' = Append(stdout, "Generated: ")
    /\ pc' = "public"
    /\ UNCHANGED <<page, args, html, frames, stderr, exit_code>>

\* fs::write creates or truncates the file and then writes the bytes: an
\* error leaves the file as it was, or empty, or with the first bytes.
WriteIndexFails ==
    /\ pc = "write_index"
    /\ \/ disk' = disk
       \/ /\ CanWriteFile(disk, index_path)
          /\ \E part \in Truncations(html) :
                disk' = WriteFile(disk, index_path, part)
    /\ GenerateFailed(<<Call("write", index_path, FALSE)>>)

\* if public_dir.exists() { copy_dir_contents(public_dir, output_dir)?
PublicExists ==
    /\ pc = "public"
    /\ exists(disk, public_dir)
    /\ frames' = <<[src |-> public_dir, dst |-> output_dir,
                    opened |-> FALSE, todo |-> <<>>]>>
    /\ pc' = "copy"
    /\ UNCHANGED <<page, args, html, disk, calls, stdout, stderr, exit_code>>

PublicAbsent_is_an_error ==
    /\ pc = "public"
    /\ ~exists(disk, public_dir)
    /\ disk' = disk
    /\ GenerateFailed(<<Call("read_dir", public_dir, FALSE)>>)

PublicAbsent ==
    /\ pc = "public"
    /\ ~exists(disk, public_dir)
    /\ pc' = "style"
    /\ UNCHANGED <<page, args, html, disk, frames, calls, stdout, stderr,
                   exit_code>>

\* The innermost call of copy_dir_contents.
Top == frames[Len(frames)]

SetTop(frame) == [frames EXCEPT ![Len(frames)] = frame]

\* copy_dir_contents: if !dst.exists() { create_dir_all(dst)? } and
\* fs::read_dir(src)?
CopyOpen ==
    /\ pc = "copy"
    /\ ~Top.opened
    /\ exists(disk, Top.dst) \/ CanCreateDirAll(disk, Top.dst)
    /\ is_dir(disk, Top.src)
    /\ disk' = IF exists(disk, Top.dst) THEN disk
               ELSE create_dir_all(disk, Top.dst)
    /\ calls' = calls
            \o (IF exists(disk, Top.dst) THEN <<>>
                ELSE <<Call("create_dir_all", Top.dst, TRUE)>>)
            \o <<Call("read_dir", Top.src, TRUE)>>
    /\ \E order \in Orders(EntryNames(disk, Top.src)) :
            frames' = SetTop([Top EXCEPT !.opened = TRUE, !.todo = order])
    /\ UNCHANGED <<page, args, pc, html, stdout, stderr, exit_code>>

CopyOpenFails ==
    /\ pc = "copy"
    /\ ~Top.opened
    /\ \/ /\ ~exists(disk, Top.dst)
          /\ disk' = disk
          /\ GenerateFailed(<<Call("create_dir_all", Top.dst, FALSE)>>)
       \/ /\ exists(disk, Top.dst)
          /\ disk' = disk
          /\ GenerateFailed(<<Call("read_dir", Top.src, FALSE)>>)
       \/ /\ ~exists(disk, Top.dst)
          /\ CanCreateDirAll(disk, Top.dst)
          /\ disk' = create_dir_all(disk, Top.dst)
          /\ GenerateFailed(<<Call("create_dir_all", Top.dst, TRUE),
                               Call("read_dir", Top.src, FALSE)>>)

CopyDescend_skips_subdirectory ==
    /\ pc = "copy"
    /\ Top.opened
    /\ Top.todo # <<>>
    /\ is_dir(disk, join(Top.src, Head(Top.todo)))
    /\ frames' = SetTop([Top EXCEPT !.todo = Tail(Top.todo)])
    /\ UNCHANGED <<page, args, pc, html, disk, calls, stdout, stderr,
                   exit_code>>

\* for entry in ..: src_path.is_dir() -> copy_dir_contents(&src_path, &dst_path)?
CopyDescend ==
    /\ pc = "copy"
    /\ Top.opened
    /\ Top.todo # <<>>
    /\ is_dir(disk, join(Top.src, Head(Top.todo)))
    /\ frames' = Append(SetTop([Top EXCEPT !.todo = Tail(Top.todo)]),
                        [src |-> join(Top.src, Head(Top.todo)),
                         dst |-> join(Top.dst, Head(Top.todo)),
                         opened |-> FALSE, todo |-> <<>>])
    /\ UNCHANGED <<page, args, pc, html, disk, calls, stdout, stderr,
                   exit_code>>

\* for entry in ..: else fs::copy(&src_path, &dst_path)?
CopyFile ==
    /\ pc = "copy"
    /\ Top.opened
    /\ Top.todo # <<>>
    /\ LET src_path == join(Top.src, Head(Top.todo))
           dst_path == join(Top.dst, Head(Top.todo))
       IN  /\ ~is_dir(disk, src_path)
           /\ CanWriteFile(disk, dst_path)
           /\ disk' = WriteFile(disk, dst_path, disk[src_path].data)
           /\ calls' = Append(calls, Call("copy", dst_path, TRUE))
    /\ frames' = SetTop([Top EXCEPT !.todo = Tail(Top.todo)])
    /\ UNCHANGED <<page, args, pc, html, stdout, stderr, exit_code>>

\* fs::copy returned Err: the destination is as it was, or was created or
\* truncated and holds only the first bytes.
CopyFileFails ==
    /\ pc = "copy"
    /\ Top.opened
    /\ Top.todo # <<>>
    /\ LET src_path == join(Top.src, Head(Top.todo))
           dst_path == join(Top.dst, Head(Top.todo))
       IN  /\ ~is_dir(disk, src_path)
           /\ \/ disk' = disk
              \/ /\ CanWriteFile(disk, dst_path)
                 /\ \E part \in Truncations(disk[src_path].data) :
                        disk' = WriteFile(disk, dst_path, part)
           /\ GenerateFailed(<<Call("copy", dst_path, FALSE)>>)

\* copy_dir_contents: Ok(()) after the last entry; back in
\* generate_static_site, println!("Copied public assets to ...")
CopyReturn ==
    /\ pc = "copy"
    /\ Top.opened
    /\ Top.todo = <<>>
    /\ frames' = SubSeq(frames, 1, Len(frames) - 1)
    /\ IF Len(frames) = 1
       THEN /\ pc' = "style"
            /\ stdout' = Append(stdout, "Copied public assets to ")
       ELSE UNCHANGED <<pc, stdout>>
    /\ UNCHANGED <<page, args, html, disk, calls, stderr, exit_code>>

\* if style_src.exists() { fs::copy(style_src, &style_dst)?; println!(..) }
CopyStyle ==
    /\ pc = "style"
    /\ exists(disk, style_src)
    /\ CanWriteFile(disk, style_dst)
    /\ ~is_dir(disk, style_src)
    /\ disk' = WriteFile(disk, style_dst, disk[style_src].data)
    /\ calls' = Append(calls, Call("copy", style_dst, TRUE))
    /\ stdout' = Append(stdout, "Copied: ")
    /\ pc' = "finish"
    /\ UNCHANGED <<page, args, html, frames, stderr, exit_code>>

CopyStyleFails ==
    /\ pc = "style"
    /\ exists(disk, style_src)
    /\ \/ disk' = disk
       \/ /\ CanWriteFile(disk, style_dst)
          /\ ~is_dir(disk, style_src)
          /\ \E part \in Truncations(disk[style_src].data) :
                disk' = WriteFile(disk, style_dst, part)
    /\ GenerateFailed(<<Call("copy", style_dst, FALSE)>>)

StyleAbsent ==
    /\ pc = "style"
    /\ ~exists(disk, style_src)
    /\ pc' = "finish"
    /\ UNCHANGED <<page, args, html, disk, frames, calls, stdout, stderr,
                   exit_code>>

\* println!("\nStatic site generated at: ..."); Ok(()) and the end of main
Finish ==
    /\ pc = "finish"
    /\ stdout' = Append(stdout, "Static site generated at: ")
    /\ Exit(0)
    /\ UNCHANGED <<page, args, html, disk, frames, calls, stderr>>

Next ==
    \/ MainNoArguments
    \/ MainHelp
    \/ MainUnknownOption
    \/ MainGenerate
    \/ CreateOutputDir
    \/ CreateOutputDirFails
    \/ Render
    \/ WriteIndex
    \/ WriteIndexFails
    \/ PublicExists
    \/ PublicAbsent
    \/ CopyOpen
    \/ CopyOpenFails
    \/ CopyDescend
    \/ CopyFile
    \/ CopyFileFails
    \/ CopyReturn
    \/ CopyStyle
    \/ CopyStyleFails
    \/ StyleAbsent
    \/ Finish

Spec == Init /\ [][Next]_vars

(***************************************************************************)
(* Specification of document assembly over content models                  *)
(***************************************************************************)
\* Content models whose values need no escaping, and catalogs of at most
\* one group besides the built-in one.
DocumentIdentities == {id \in Identities : PlainIdentity(id)}

DocumentCatalogs == {c \in Catalogs : Len(c) <= 1} \cup {LINK_GROUPS}

InitDocument ==
    /\ identity \in DocumentIdentities
    /\ jsonLd = NotRendered
    /\ headHtml = NotRendered
    /\ cardHtml = NotRendered
    /\ catalog \in DocumentCatalogs
    /\ listHtml = NotRendered
    /\ markers \in BOOLEAN
    /\ NotStarted

\* let html = render_to_html();
AssembleDocument ==
    /\ html = NotRendered
    /\ html' = render_to_html(identity, catalog)
    /\ UNCHANGED <<page, args, pc, disk, frames, calls, stdout, stderr,
                   exit_code>>

NextDocument == AssembleDocument

SpecDocument == InitDocument /\ [][NextDocument]_vars

(***************************************************************************)
(* Specification of the generator over content models with a defect        *)
(***************************************************************************)
\* The built-in content model and the ones that differ from it in one
\* field that is empty or breaks its invariant (url begins with https://,
\* avatarPath with /).
ContentModels ==
    {Config,
     [Config EXCEPT !.url = <<>>],
     [Config EXCEPT !.name = <<>>],
     [Config EXCEPT !.description = <<>>],
     [Config EXCEPT !.url = <<"http://", "everythingsings.art">>],
     [Config EXCEPT !.avatarPath = <<"avatar.png">>]}

InitContent ==
    /\ identity \in ContentModels
    /\ jsonLd = NotRendered
    /\ headHtml = NotRendered
    /\ cardHtml = NotRendered
    /\ catalog = LINK_GROUPS
    /\ listHtml = NotRendered
    /\ markers = FALSE
    /\ args \in ArgLists
    /\ pc = "main"
    /\ html = NotRendered
    /\ disk \in Disks
    /\ frames = <<>>
    /\ calls = <<>>
    /\ stdout = <<>>
    /\ stderr = <<>>
    /\ exit_code = Running

SpecContent == InitContent /\ [][Next]_vars

(***************************************************************************)
(* Claims about the head and the profile card (checked under SpecHead)     *)
(***************************************************************************)
AllRendered ==
    /\ jsonLd # NotRendered /\ headHtml # NotRendered /\ cardHtml # NotRendered

\* C1: for every identity, the JSON-LD object, the Microformats2 classes
\* and the microdata itemprops of the profile card each yield the same
\* name, the same description and an image that resolves to url +
\* avatarPath.
C1_ThreeEncodingsAgree ==
    AllRendered =>
        LET j == ReadJson(jsonLd)
            M == Lex(cardHtml)
            image == identity.url \o identity.avatarPath
        IN  /\ j.ok
            /\ JsonString(j, "name") = identity.name
            /\ JsonString(j, "description") = identity.description
            /\ JsonString(j, "image") = image
            /\ LexOk(cardHtml, M)
            /\ OnlyText(cardHtml, M, WithClass(cardHtml, M, <<"p-name">>))
                   = identity.name
            /\ OnlyText(cardHtml, M, WithClass(cardHtml, M, <<"p-note">>))
                   = identity.description
            /\ Resolve(identity.url,
                       OnlyAttr(cardHtml, M,
                                WithClass(cardHtml, M, <<"u-photo">>), "src"))
                   = image
            /\ OnlyText(cardHtml, M, WithItemprop(cardHtml, M, "name"))
                   = identity.name
            /\ OnlyText(cardHtml, M, WithItemprop(cardHtml, M, "description"))
                   = identity.description
            /\ Resolve(identity.url,
                       OnlyAttr(cardHtml, M,
                                WithItemprop(cardHtml, M, "image"), "src"))
                   = image

\* The content of the JSON-LD block of a head fragment, read as JSON.
HeadJsonLd(s, M) ==
    ReadJson(TextAfter(s, M, CHOOSE i \in JsonLdBlocks(s, M) : TRUE))

\* C5: the head fragment holds exactly one JSON-LD block; its content is a
\* Person with non-empty name, url, description and image, and the image
\* is url followed by avatarPath.  Stated for the built-in identity and
\* every identity free of markup metacharacters.
C5_HeadJsonLdPerson ==
    (headHtml # NotRendered /\ PlainIdentity(identity)) =>
        LET M == Lex(headHtml)
        IN  /\ Cardinality(JsonLdBlocks(headHtml, M)) = 1
            /\ LET j == HeadJsonLd(headHtml, M)
               IN  /\ j.ok
                   /\ JsonString(j, "@type") = <<"Person">>
                   /\ JsonString(j, "name") # <<>>
                   /\ JsonString(j, "url") # <<>>
                   /\ JsonString(j, "description") # <<>>
                   /\ JsonString(j, "image") # <<>>
                   /\ JsonString(j, "image")
                          = identity.url \o identity.avatarPath

C5_Witness ==
    /\ headHtml # NotRendered
    /\ identity = Config
    /\ JsonString(HeadJsonLd(headHtml, Lex(headHtml)), "image")
           = <<"https://", "everythingsings.art", SL, "avatar.png">>

\* C6: for every identity the JSON-LD block is valid JSON and the head
\* fragment is well-formed, and every interpolated value reads back as the
\* value that was put in.
C6_HeadValuesEscaped ==
    headHtml # NotRendered =>
        LET M == Lex(headHtml)
            Metas(k, v) == {i \in OpenTags(headHtml, M) :
                               /\ headHtml[i] = "meta"
                               /\ AttrValue(headHtml, M, i, k) = <<v>>}
        IN  /\ WellFormedHtml(headHtml)
            /\ Cardinality(JsonLdBlocks(headHtml, M)) = 1
            /\ LET j == HeadJsonLd(headHtml, M)
               IN  /\ j.ok
                   /\ JsonString(j, "name") = identity.name
                   /\ JsonString(j, "url") = identity.url
                   /\ JsonString(j, "description") = identity.description
            /\ OnlyAttr(headHtml, M, Metas("name", "description"), "content")
                   = identity.description
            /\ OnlyAttr(headHtml, M, Metas("property", "og:title"), "content")
                   = identity.name
            /\ OnlyAttr(headHtml, M, Metas("property", "og:url"), "content")
                   = identity.url
(***************************************************************************)
(* Claims about the link list (checked under SpecLinks)                    *)
(***************************************************************************)
\* The members of a set of positions in increasing order.
Sorted(S) ==
    [k \in 1..Cardinality(S) |->
        CHOOSE x \in S : Cardinality({y \in S : y <= x}) = k]

\* The members of S between position p and the member of B that follows p.
Within(S, B, p, end) ==
    LET later == {x \in B : x > p}
        q == IF later = {} THEN end ELSE Min(later)
    IN  {x \in S : p < x /\ x < q}

\* What a reader of the fragment finds: the group containers in document
\* order, each with its label and its link items in document order.
ReadLinkList(s) ==
    LET M == Lex(s)
        open == OpenTags(s, M)
        end == Len(s) + 1
        class == [i \in open |-> Words(AttrValue(s, M, i, "class"))]
        secs == {i \in open : s[i] = "section" /\ <<"link-group">> \in class[i]}
        heads == {i \in open : <<"link-group", "-label">> \in class[i]}
        items == {i \in open : s[i] = "li" /\ <<"link-item">> \in class[i]}
        anchors == {i \in open : s[i] = "a"}
        labels == {i \in open : s[i] = "span" /\ <<"link-label">> \in class[i]}
        descs == {i \in open : s[i] = "span"
                               /\ <<"link-description">> \in class[i]}
        ReadItem(p) ==
            LET as == Within(anchors, items, p, end)
                ls == Within(labels, items, p, end)
                ds == Within(descs, items, p, end)
            IN  [href |-> OnlyAttr(s, M, as, "href"),
                 rel |-> Words(OnlyAttr(s, M, as, "rel")),
                 itemprop |-> OnlyAttr(s, M, as, "itemprop"),
                 title |-> OnlyAttr(s, M, as, "title"),
                 anchors |-> Cardinality(as),
                 labels |-> Cardinality(ls),
                 label |-> OnlyText(s, M, ls),
                 descriptions |-> Cardinality(ds),
                 description |-> OnlyText(s, M, ds),
                 inAnchor |-> \A x \in ls \cup ds : \E y \in as : y < x]
        ReadGroup(p) ==
            LET its == Sorted(Within(items, secs, p, end))
            IN  [name |-> OnlyText(s, M, Within(heads, secs, p, end)),
                 links |-> [m \in 1..Len(its) |-> ReadItem(its[m])]]
        order == Sorted(secs)
    IN  [k \in 1..Len(order) |-> ReadGroup(order[k])]

Rendered == listHtml # NotRendered

\* The positions <<k, m>> of the links of a catalog.
LinksOf(groups) ==
    UNION { {<<k, m>> : m \in 1..Len(groups[k].links)} : k \in 1..Len(groups) }

SameShape(read, groups) ==
    /\ Len(read) = Len(groups)
    /\ \A k \in 1..Len(groups) : Len(read[k].links) = Len(groups[k].links)

\* C7: the fragment keeps the declaration order: the group containers
\* appear in the order of the catalog and, inside each, the link items in
\* the order of the group's links.
C7_OrderPreserved ==
    Rendered =>
        LET read == ReadLinkList(listHtml)
        IN  /\ SameShape(read, catalog)
            /\ \A k \in 1..Len(catalog) : read[k].name = catalog[k].name
            /\ \A p \in LinksOf(catalog) :
                   /\ read[p[1]].links[p[2]].label
                          = catalog[p[1]].links[p[2]].label
                   /\ read[p[1]].links[p[2]].href
                          = catalog[p[1]].links[p[2]].href

C7_Witness ==
    /\ Rendered
    /\ Len(catalog) >= 2
    /\ \E k \in 1..Len(catalog) :
           /\ Len(catalog[k].links) >= 2
           /\ catalog[k].links[1] # catalog[k].links[2]
    /\ Len(ReadLinkList(listHtml)) = Len(catalog)

\* C8: an anchor holds one label span and, exactly when its link has a
\* description, one description span with that description, apart from
\* the label span.
C8_DescriptionSpan ==
    Rendered =>
        LET read == ReadLinkList(listHtml)
        IN  /\ SameShape(read, catalog)
            /\ \A p \in LinksOf(catalog) :
                   LET r == read[p[1]].links[p[2]]
                       link == catalog[p[1]].links[p[2]]
                   IN  /\ r.anchors = 1
                       /\ r.inAnchor
                       /\ r.labels = 1
                       /\ r.label = link.label
                       /\ IF link.description = None
                          THEN r.descriptions = 0
                          ELSE /\ r.descriptions = 1
                               /\ r.description = link.description[1]

C8_Witness ==
    /\ Rendered
    /\ \E p \in LinksOf(catalog), q \in LinksOf(catalog) :
           /\ catalog[p[1]].links[p[2]].description = None
           /\ catalog[q[1]].links[q[2]].description # None
           /\ ReadLinkList(listHtml)[q[1]].links[q[2]].descriptions = 1

\* C9: every anchor of the fragment, one for every link of the catalog,
\* carries rel with "me" and "noopener" and itemprop="sameAs".
C9_RelMeSameAs ==
    Rendered =>
        LET M == Lex(listHtml)
            anchors == {i \in OpenTags(listHtml, M) : listHtml[i] = "a"}
        IN  /\ Cardinality(anchors) = Cardinality(LinksOf(catalog))
            /\ \A i \in anchors :
                   /\ <<"me">> \in Words(AttrValue(listHtml, M, i, "rel"))
                   /\ <<"noopener">> \in Words(AttrValue(listHtml, M, i, "rel"))
                   /\ AttrValue(listHtml, M, i, "itemprop") = <<"sameAs">>

C9_Witness ==
    /\ Rendered
    /\ \E p \in LinksOf(catalog) : catalog[p[1]].links[p[2]].description = None
    /\ \A k \in 1..Len(catalog) :
           \A m \in 1..Len(catalog[k].links) :
               <<"me">> \in ReadLinkList(listHtml)[k].links[m].rel

\* C10: the fragment holds as many group containers, counted by the
\* marker of the tests, as the catalog has groups, and as many link items
\* as the catalog has links; no group label matches the marker; the
\* built-in catalog gives 5 and 10.
C10_Counts ==
    Rendered =>
        LET M == Lex(listHtml)
            open == OpenTags(listHtml, M)
            items == {i \in open : listHtml[i] = "li"
                                   /\ HasClass(listHtml, M, i, <<"link-item">>)}
            heads == {i \in open :
                         HasClass(listHtml, M, i, <<"link-group", "-label">>)}
        IN  /\ CountMatches(listHtml, GroupMarker) = Len(catalog)
            /\ Cardinality(items) = Cardinality(LinksOf(catalog))
            /\ Cardinality(heads) = Len(catalog)
            /\ \A h \in heads : ~MatchAt(listHtml, h - 1, GroupMarker)
            /\ catalog = LINK_GROUPS =>
                   /\ CountMatches(listHtml, GroupMarker) = 5
                   /\ Cardinality(items) = 10

C10_Witness ==
    /\ Rendered
    /\ catalog = LINK_GROUPS
    /\ CountMatches(listHtml, GroupMarker) = 5
    /\ CountMatches(listHtml, <<"link-group">>) = 10
(***************************************************************************)
(* Claims about the generator process (checked under Spec)                 *)
(***************************************************************************)
Printed(stream, line) == \E k \in 1..Len(stream) : stream[k] = line

Made(call) == \E k \in 1..Len(calls) : calls[k] = call

\* A usage error ends the process with the usage on stderr and a non-zero
\* status, and no filesystem call is ever made.
UsageErrorOutcome ==
    /\ calls = <<>>
    /\ disk \in Disks
    /\ pc = "exited" => exit_code # 0 /\ Printed(stderr, Usage)

\* C2 as stated: an invocation with no arguments, or with any argument that
\* is not a recognized mode flag, prints usage to stderr, exits non-zero and
\* writes nothing to the filesystem.
C2_UsageForAnyUnrecognized ==
    (Len(args) < 2 \/ \E k \in 2..Len(args) : args[k] \notin ModeFlags)
        => UsageErrorOutcome

\* C2 amended: an invocation with no arguments, or whose first argument is
\* not a recognized mode flag, prints usage to stderr, exits non-zero and
\* writes nothing to the filesystem.
C2_UsageForUnrecognizedFirst ==
    (Len(args) < 2 \/ args[2] \notin ModeFlags) => UsageErrorOutcome

C2_Witness ==
    /\ pc = "exited"
    /\ Len(args) = 3
    /\ args[2] = "--bogus"
    /\ args[3] = "--generate-static"
    /\ exit_code = 1
    /\ stderr = <<UnknownOption, Usage>>

Failed == \E k \in 1..Len(calls) : ~calls[k].ok

\* C3: once a filesystem step of generation has failed, the error is on
\* stderr, the failed call is the last call made (no later step, no retry),
\* what the earlier calls created is still there (no rollback), and the
\* process has exited with a non-zero status.
C3_FailureStopsGeneration ==
    Failed =>
        /\ Printed(stderr, ErrorGenerating)
        /\ \A k \in 1..Len(calls) : ~calls[k].ok <=> k = Len(calls)
        /\ \A k \in 1..Len(calls) :
              calls[k].ok /\ calls[k].op # "read_dir"
                  => exists(disk, calls[k].path)
        /\ ~Printed(stdout, "Static site generated at: ")
        /\ frames = <<>>
        /\ pc = "exited"
        /\ exit_code # 0
        /\ exit_code # Running

C3_Witness ==
    /\ Failed
    /\ Len(calls) >= 4
    /\ calls[Len(calls)].op = "copy"
    /\ calls[Len(calls)].path # style_dst
    /\ Made(Call("write", index_path, TRUE))

\* The data is a part of the document: some, but not all, of its beginning.
PartOf(data, document) ==
    /\ 0 < Len(data)
    /\ Len(data) < Len(document)
    /\ data = SubSeq(document, 1, Len(data))

\* The local html is only ever assigned the complete document.
HtmlIsTheDocument ==
    html' # html => html' = render_to_html(identity', catalog')

\* The document is written, and assets and the stylesheet are copied, only
\* after render_to_html has returned, and the document is written once.
WriteAfterRender ==
    /\ (\E k \in 1..Len(calls) : calls[k].op \in {"write", "copy"})
            => html # NotRendered
    /\ Cardinality({k \in 1..Len(calls) : calls[k].op = "write"}) <= 1

\* C4 as stated: the write and the copies happen only after render_to_html
\* has returned the complete document, the document is written once, and in
\* no state does index.html hold a part of the document.
C4_NoPartialDocument ==
    /\ WriteAfterRender
    /\ exists(disk, index_path) =>
           ~PartOf(disk[index_path].data, render_to_html(identity, catalog))

\* Once the write has succeeded index.html holds the string html, until a
\* copy of public/index.html replaces it; it holds a part of html only after
\* the write failed.
WholeOnceWritten ==
    /\ Made(Call("write", index_path, TRUE))
            /\ ~(\E k \in 1..Len(calls) :
                    calls[k].op = "copy" /\ calls[k].path = index_path)
        => exists(disk, index_path) /\ disk[index_path].data = html
    /\ exists(disk, index_path) /\ PartOf(disk[index_path].data, html)
        => Made(Call("write", index_path, FALSE))

\* C4 amended: the write and the copies happen only after render_to_html
\* has returned the complete document, the document is written once, and
\* index.html holds the whole document once that write has succeeded (until
\* a copy of public/index.html replaces it); it holds a part of the document
\* only after the write failed.
C4_WholeDocumentOnceWritten ==
    /\ [](WriteAfterRender /\ WholeOnceWritten)
    /\ [][HtmlIsTheDocument]_vars

C4_Witness ==
    /\ pc = "exited"
    /\ exit_code = 0
    /\ Made(Call("write", index_path, TRUE))
    /\ disk[index_path].data = render_to_html(identity, catalog)
    /\ Made(Call("copy", join(output_dir, "avatar.png"), TRUE))
    /\ Made(Call("copy", style_dst, TRUE))

(***************************************************************************)
(* Claims about the document (checked under SpecDocument)                  *)
(***************************************************************************)
\* The nesting depth at every tag of s, computed once.
Depths(s, M) ==
    LET opened == Opened(s, M)
        closed == CloseTags(s, M)
    IN  [k \in OpenTags(s, M) \cup closed |->
            Cardinality({i \in opened : i < k})
            - Cardinality({i \in closed : i < k})]

\* Nested(s, M), read from the depths D.
NestedAt(s, M, D) ==
    /\ Cardinality(Opened(s, M)) = Cardinality(CloseTags(s, M))
    /\ \A c \in CloseTags(s, M) :
           LET cands == {o \in Opened(s, M) : o < c /\ D[o] = D[c] - 1}
           IN  D[c] >= 1 /\ cands # {} /\ s[Max(cands)] = s[c]

\* The position of the name of the closing tag of the element opened at i.
ClosingOf(s, M, D, i) ==
    Min({c \in CloseTags(s, M) : c > i /\ D[c] = D[i] + 1})

\* C11: the document is, in this order and with nothing in between, the
\* doctype, the opening html tag with lang="en", the head fragment, the
\* body fragment and the closing html tag; the body fragment holds no head
\* element.
C11_DocumentOrder ==
    html # NotRendered =>
        LET s == html
            M == Lex(s)
            D == Depths(s, M)
            root == {i \in OpenTags(s, M) : D[i] = 0}
            children == {i \in OpenTags(s, M) : D[i] = 1}
        IN  /\ LexOk(s, M) /\ NestedAt(s, M, D)
            /\ s[1] = Doctype
            /\ \A k \in 2..Len(s) : s[k] # Doctype
            /\ root = {3}
            /\ s[3] = "html"
            /\ AttrValue(s, M, 3, "lang") = <<"en">>
            /\ SubSeq(s, Len(s) - 3, Len(s)) = <<LT, SL, "html", GT>>
            /\ Cardinality(children) = 2
            /\ LET h == Min(children)
                   b == Max(children)
                   he == ClosingOf(s, M, D, h)
                   be == ClosingOf(s, M, D, b)
               IN  /\ s[h] = "head" /\ s[b] = "body"
                   /\ h = TagEnd(s, M, 3) + 2
                   /\ b = he + 3
                   /\ be + 1 = Len(s) - 4
                   /\ SubSeq(s, h - 1, he + 1) = generate_head_html(identity)
                   /\ SubSeq(s, b - 1, be + 1) = App(identity, catalog)
                   /\ \A i \in OpenTags(s, M) : i > b => s[i] # "head"
                   /\ ~Contains(SubSeq(s, b - 1, be + 1), <<LT, "head">>)

C11_Witness ==
    /\ html # NotRendered
    /\ identity = Config
    /\ catalog = LINK_GROUPS
    /\ html[1] = Doctype
    /\ Contains(html, <<LT, "head", GT>>)
    /\ Contains(html, <<LT, "body", SP, "itemscope">>)

(***************************************************************************)
(* Claims about optional sources and help mode (checked under Spec)        *)
(***************************************************************************)
GenerateMode == Len(args) >= 2 /\ args[2] = "--generate-static"

\* Nothing is read or copied from a source that is absent.
AbsentSourceUntouched ==
    /\ ~exists(disk, public_dir) =>
           \A k \in 1..Len(calls) :
               /\ calls[k].op # "read_dir"
               /\ calls[k].op = "copy" => calls[k].path = style_dst
    /\ ~exists(disk, style_src) =>
           /\ ~Made(Call("copy", style_dst, TRUE))
           /\ ~Made(Call("copy", style_dst, FALSE))
           /\ ~Printed(stdout, "Copied: ")

\* A run with an absent source, in which no filesystem call failed, ends
\* with index.html written, nothing on stderr and status 0.
AbsentSourceSucceeds ==
    /\ GenerateMode
    /\ pc = "exited"
    /\ ~exists(disk, public_dir) \/ ~exists(disk, style_src)
    /\ ~Failed
    => /\ exit_code = 0
       /\ stderr = <<>>
       /\ Made(Call("write", index_path, TRUE))
       /\ exists(disk, index_path)
       /\ Printed(stdout, "Static site generated at: ")

\* Finding a source absent is a step to the next statement, with no call,
\* no message and no change of the filesystem.
AbsentSourceSkipped ==
    /\ pc = "public" /\ ~exists(disk, public_dir)
        => pc' = "style" /\ UNCHANGED <<calls, stderr, disk, exit_code>>
    /\ pc = "style" /\ ~exists(disk, style_src)
        => pc' = "finish" /\ UNCHANGED <<calls, stderr, disk, exit_code>>

\* C13: when public/ or style/main.css or both are absent, generation skips
\* the absent source, still writes index.html, reports no error and exits
\* with status 0.
C13_AbsentSourcesSkipped ==
    /\ [](AbsentSourceUntouched /\ AbsentSourceSucceeds)
    /\ [][AbsentSourceSkipped]_vars

C13_Witness ==
    /\ GenerateMode
    /\ pc = "exited"
    /\ ~exists(disk, public_dir)
    /\ ~exists(disk, style_src)
    /\ exit_code = 0
    /\ calls = <<Call("create_dir_all", output_dir, TRUE),
                 Call("write", index_path, TRUE)>>
    /\ disk[index_path].data = html

\* C15: in help mode (first argument --help or -h) main prints usage and
\* exits with status 0, and generation never runs: no filesystem call is
\* made, nothing is rendered and nothing is written.
C15_HelpOnlyPrintsUsage ==
    (Len(args) >= 2 /\ args[2] \in {"--help", "-h"}) =>
        /\ pc \in {"main", "exited"}
        /\ calls = <<>>
        /\ html = NotRendered
        /\ disk \in Disks
        /\ stdout = <<>>
        /\ pc = "exited" => exit_code = 0 /\ stderr = <<Usage>>

C15_Witness ==
    /\ pc = "exited"
    /\ args = <<"everythingsings", "-h">>
    /\ exit_code = 0
    /\ stderr = <<Usage>>
    /\ calls = <<>>

(***************************************************************************)
(* Claims about defective content models (checked under SpecContent)       *)
(***************************************************************************)
\* The invariants of the content model: no required field is empty, the
\* url begins with https:// and the avatar path with /.
ValidIdentity(id) ==
    /\ id.name # <<>>
    /\ id.description # <<>>
    /\ Len(id.url) >= 2 /\ id.url[1] = "https://"
    /\ Len(id.avatarPath) >= 2 /\ id.avatarPath[1] = SL

\* The document s names a canonical url, an og:url and a JSON-LD url, none
\* of them empty.
NamesItsUrl(s) ==
    LET M == Lex(s)
        canonical == {i \in OpenTags(s, M) :
                         s[i] = "link" /\ AttrValue(s, M, i, "rel") = <<"canonical">>}
        ogUrl == {i \in OpenTags(s, M) :
                     s[i] = "meta" /\ AttrValue(s, M, i, "property") = <<"og:url">>}
    IN  /\ OnlyAttr(s, M, canonical, "href") # <<>>
        /\ OnlyAttr(s, M, ogUrl, "content") # <<>>
        /\ Cardinality(JsonLdBlocks(s, M)) = 1
        /\ JsonString(HeadJsonLd(s, M), "url") # <<>>

\* C14: with a content-model field empty or malformed, assembly fails
\* visibly (an error on stderr and a non-zero status) and no document is
\* written; no run writes a document with an empty canonical url, og:url
\* or JSON-LD url.
C14_DefectFailsVisibly ==
    /\ Made(Call("write", index_path, TRUE)) /\ disk[index_path].data = html
           => NamesItsUrl(html)
    /\ ~ValidIdentity(identity) => ~Made(Call("write", index_path, TRUE))
    /\ ~ValidIdentity(identity) /\ GenerateMode /\ pc = "exited"
           => exit_code # 0 /\ stderr # <<>>

(***************************************************************************)
(* Claims about the output of a run and the recursive copy (under Spec)    *)
(***************************************************************************)
\* C16: after a successful run, whatever public/ and style/main.css hold,
\* index.html holds exactly the document render_to_html returned, and
\* main.css, when style/main.css exists, holds the bytes of style/main.css.
C16_IndexHoldsDocument ==
    (GenerateMode /\ pc = "exited" /\ exit_code = 0) =>
        /\ exists(disk, index_path)
        /\ disk[index_path].data = render_to_html(identity, catalog)
        /\ exists(disk, style_src) =>
               /\ exists(disk, style_dst)
               /\ disk[style_dst].data = disk[style_src].data

\* The paths of d below root, and a path below src moved below dst.
Under(d, root) ==
    {p \in DOMAIN d : Len(p) > Len(root) /\ SubSeq(p, 1, Len(root)) = root}

Rebase(p, src, dst) == dst \o SubSeq(p, Len(src) + 1, Len(p))

\* Every file below src is below dst at the same relative path with the same
\* bytes, and every directory below src is a directory below dst.
Copied(d, src, dst) ==
    /\ is_dir(d, dst)
    /\ \A p \in Under(d, src) :
           LET q == Rebase(p, src, dst)
           IN  /\ exists(d, q)
               /\ d[q] = d[p]

\* The tree below src is in d2 what it is in d1.
SameTree(d1, d2, src) ==
    /\ Under(d2, src) = Under(d1, src)
    /\ \A p \in Under(d1, src) \cup {src} : exists(d2, p) /\ d2[p] = d1[p]

\* The steps a call of copy_dir_contents still has to take: two for the call
\* itself (open, return) and one for each entry, plus the steps of the call
\* made for an entry that is a directory.
RECURSIVE CallSteps(_, _)
RECURSIVE EntrySteps(_, _, _)
EntrySteps(d, dir, names) ==
    IF names = {} THEN 0
    ELSE LET n == CHOOSE n \in names : TRUE
             p == join(dir, n)
         IN  (IF is_dir(d, p) THEN 1 + CallSteps(d, p) ELSE 1)
             + EntrySteps(d, dir, names \ {n})

CallSteps(d, dir) == 2 + EntrySteps(d, dir, EntryNames(d, dir))

FrameSteps(d, f) ==
    IF f.opened
    THEN 1 + EntrySteps(d, f.src, {f.todo[k] : k \in 1..Len(f.todo)})
    ELSE CallSteps(d, f.src)

RECURSIVE StepsLeft(_, _)
StepsLeft(d, fs) ==
    IF fs = <<>> THEN 0
    ELSE FrameSteps(d, Head(fs)) + StepsLeft(d, Tail(fs))

\* A step taken inside copy_dir_contents: the source tree stays as it is,
\* the number of steps left decreases, and a call that returns Ok has copied
\* its tree.
CopyStepRight ==
    pc = "copy" =>
        /\ SameTree(disk, disk', frames[1].src)
        /\ pc' = "copy" => StepsLeft(disk', frames') < StepsLeft(disk, frames)
        /\ Len(frames') < Len(frames) /\ pc' # "exited"
               => Copied(disk', Top.src, Top.dst)

\* C17: copy_dir_contents terminates on every finite tree (each of its steps
\* lowers the number of steps left), and when it returns Ok every file and
\* directory below src is at the same relative path below dst, the files
\* with the same bytes, and src is unchanged.
C17_CopyTerminatesAndCopies == [][CopyStepRight]_vars

C17_Witness ==
    /\ pc = "style"
    /\ Printed(stdout, "Copied public assets to ")
    /\ exists(disk, <<"public", "img", "avatar.png">>)
    /\ exists(disk, <<"public", "index.html">>)
    /\ Copied(disk, public_dir, output_dir)
    /\ disk[<<"target", "site", "img", "avatar.png">>].data
           = Bytes(<<"public", "img", "avatar.png">>)

====
